---- MODULE Spec2Model ----
(***************************************************************************)
(* Model of the agent orchestration core of the Gemini computer-use        *)
(* extension: the background service worker (message handler, agent loop,  *)
(* safety gate) and the BrowserAgent conversation it drives.               *)
(*                                                                         *)
(* The service worker is single threaded.  A loop invocation runs from one *)
(* await to the next without interruption; between two awaits any message  *)
(* handler (or another suspended loop invocation) may run.  Each action    *)
(* below is one such uninterrupted segment.                                *)
(***************************************************************************)
EXTENDS Integers, Sequences, FiniteSets, TLC

\* ---- bounds ----
MaxLoops == 2        \* loop invocations (runAgentLoop / handleUserMessage) ever started
MaxModelCalls == 2   \* model calls ever issued
MaxCalls == 2        \* function calls in one model reply
MaxTurns == 5        \* turns of a history that is pruned
MaxPixel == 8        \* pixel coordinates converted: -MaxPixel..MaxPixel
MaxExtent == 4000    \* viewport extents converted: 1..MaxExtent
MaxPieces == 3       \* pieces of text in a reply
MaxViewport == 600   \* viewport widths / heights denormalized to: 1..MaxViewport
MaxEvents == 3       \* status changes of the tab during one page-settle wait

\* ---- program constants ----
MAX_RECENT_TURN_WITH_SCREENSHOTS == 3

PREDEFINED_COMPUTER_USE_FUNCTIONS ==
    {"open_web_browser", "click_at", "hover_at", "type_text_at", "scroll_document",
     "scroll_at", "wait_5_seconds", "go_back", "go_forward", "search", "navigate",
     "key_combination", "drag_and_drop"}

Loops == 1..MaxLoops
NoAgent == 0
\* The inputs the environment supplies: the settings object of a message, the
\* url the tab reports, the outcome of a dispatched action.
Settings == {"s1"}
Urls == {"url"}
NoPending == [loop |-> 0, idx |-> 0]

\* A function call as extracted from a model reply: its name and the value of
\* args.safety_decision.decision ("none" when the field is absent).
FunctionCalls == [name : {"click_at"}, safety : {"none", "require_confirmation"}]

RECURSIVE SeqsUpTo(_, _)
SeqsUpTo(S, n) ==
    IF n = 0 THEN {<<>>}
    ELSE LET shorter == SeqsUpTo(S, n - 1)
         IN shorter \cup {Append(s, x) : s \in {t \in shorter : Len(t) = n - 1}, x \in S}

CallSeqs == SeqsUpTo(FunctionCalls, MaxCalls)

\* Text of a reply, classified by what the loop reads from it: "none" (no
\* non-thought text part), "statement", "question" (matches the heuristic).
Candidates ==
    \* final replies: no function call
    [content : {TRUE}, text : {"statement", "question"}, thought : {FALSE},
     calls : {<<>>}, finishReason : {"STOP"}]
    \cup
    [content : {TRUE}, text : {"none"}, thought : BOOLEAN,
     calls : {<<>>}, finishReason : {"STOP"}]
    \cup
    \* replies that request a batch of actions
    [content : {TRUE}, text : {"statement"}, thought : {FALSE},
     calls : CallSeqs \ {<<>>}, finishReason : {"STOP"}]
    \cup
    \* malformed function call, with or without a content object
    [content : {TRUE}, text : {"none"}, thought : BOOLEAN,
     calls : {<<>>}, finishReason : {"MALFORMED_FUNCTION_CALL"}]
    \cup
    [content : {FALSE}, text : {"none"}, thought : {FALSE},
     calls : {<<>>}, finishReason : {"MALFORMED_FUNCTION_CALL"}]
    \cup
    \* reply blocked by the safety filters: no content
    [content : {FALSE}, text : {"none"}, thought : {FALSE},
     calls : {<<>>}, finishReason : {"SAFETY"}]

\* executeAction returns the actuator's result, or {success: false, error, url}
\* with url '' when no tab url is known.
NoResult == [success |-> FALSE, url |-> "unset"]
ActionResults == {[success |-> TRUE, url |-> "url"],
                  [success |-> FALSE, url |-> ""]}

VARIABLES
    \* service-worker globals
    agent,                      \* id of the BrowserAgent the global refers to, NoAgent = null
    contents,                   \* agent.contents of that BrowserAgent
    isRunning,
    shouldStop,
    currentSettings,
    pendingSafetyConfirmation,  \* which loop's promise the stored resolve belongs to
    \* one entry per loop invocation
    pc,                         \* the await the invocation is suspended at
    origin,                     \* "runAgentLoop" or "handleUserMessage"
    task,                       \* the agent (task) the invocation was started for
    callAgent,                  \* `this` of the getModelResponse call in flight
    functionCalls,
    idx,                        \* position of the for loop in functionCalls
    functionResponses,
    safetyAcknowledgement,
    allowed,                    \* value the confirmation promise resolved to
    result,
    reasoning,
    highlight,                  \* highlightMouse argument of the executeAction in flight
    malformed,                  \* the last iteration returned CONTINUE for a malformed reply
    \* observation of what the program did
    modelCalls,                 \* number of model calls issued so far
    notified,                   \* sendToSidepanel messages of the latest segment, in order
    sent,                       \* history sent with the model call in flight
    firstSent,                  \* history sent with the call that came back malformed
    isRetry,                    \* the model call in flight re-issues a malformed one
    stopSeen,                   \* stop() was called while the invocation was in a batch
    deniedLeft,                 \* calls that followed the call the user denied, -1 = no denial
    \* one call of BrowserAgent.getModelResponse
    gmrPc,                      \* "idle", "generate", "backoff", "returned", "threw"
    attempt,                    \* the loop variable of its for loop
    delays,                     \* the delayMs it has slept so far, in order
    failures,                   \* the errors generateContent has rejected with, in order
    returned,                   \* the response it returned
    thrown,                     \* the errors it has thrown to its caller
    \* one call of executeAction
    execPc,                     \* the await it is suspended at, "returned" or "threw"
    action,                     \* its argument: the name of the action
    tab,                        \* what the latest chrome.tabs.query gave
    error,                      \* message of the error its outer catch caught
    injectError,                \* message of the error its inner catch caught
    response,                   \* the value it returned
    sends,                      \* EXECUTE_ACTION messages it has sent to the tab
    injections,                 \* chrome.scripting.executeScript calls it has made
    \* a BrowserAgent whose history is pruned
    history,                    \* its contents
    before,                     \* its contents when the latest _cleanupOldScreenshots began
    cleanups,                   \* _cleanupOldScreenshots runs since a turn was last pushed (2 = two or more)
    pruned,                     \* _cleanupOldScreenshots has run on this history
    \* one conversion of a pixel coordinate to the normalized range and back
    coordPc,                    \* "idle", "pixel", "normalized", "denormalized"
    pixel,
    extent,                     \* viewportWidth / viewportHeight
    normalized,                 \* normalizeX(pixel, extent)
    roundTrip,                  \* denormalizeX(normalized, extent)
    \* one batch of the loop of the earlier service worker (lib/api.js variant)
    legacyPc,                   \* "idle", "safety", "exec", "sleep200", "settle", "done", "stopped"
    legacyCalls,                \* functionCalls
    legacyIdx,                  \* position of its for loop
    legacyResponses,            \* functionResponses
    legacyStop,                 \* shouldStop
    legacyPending,              \* pendingSafetyConfirmation is set
    legacyExecuted,             \* positions of the calls passed to executeAction
    \* one call of BrowserAgent.isWaitingForInput
    questionText,               \* its argument, as a sequence of pieces of text
    waiting,                    \* what it returned: "true" / "false", "unset" before it returns
    \* one call of waitForPageSettle
    settlePc,                   \* "idle", "sleep500", "query", "loading", "sleep500b", "returned"
    tabStatus,                  \* status of the active tab: "none" (no tab), "loading", "complete"
    queried,                    \* tab.status as the query reported it, "unset" before
    listening,                  \* its onUpdated listener is registered
    elapsed,                    \* seconds since its setTimeout was set
    events,                     \* 'complete' events the tab has fired since the call began
    \* the side panel's safety banner
    banner,                     \* the confirmation request the banner shows, NoPending = hidden
    inbox                       \* SAFETY_CONFIRMATION messages on their way to the side panel

globals == <<agent, contents, isRunning, shouldStop, currentSettings, pendingSafetyConfirmation>>
locals == <<pc, origin, task, callAgent, functionCalls, idx, functionResponses,
            safetyAcknowledgement, allowed, result, reasoning, highlight, malformed>>
observed == <<modelCalls, notified, sent, firstSent, isRetry, stopSeen, deniedLeft>>
retryVars == <<gmrPc, attempt, delays, failures, returned, thrown>>
execVars == <<execPc, action, tab, error, injectError, response, sends, injections>>
pruneVars == <<history, before, cleanups, pruned>>
coordVars == <<coordPc, pixel, extent, normalized, roundTrip>>
legacyVars == <<legacyPc, legacyCalls, legacyIdx, legacyResponses, legacyStop, legacyPending,
                legacyExecuted>>
questionVars == <<questionText, waiting>>
settleVars == <<settlePc, tabStatus, queried, listening, elapsed, events>>
panelVars == <<banner, inbox>>
vars == <<globals, locals, observed, retryVars, execVars, pruneVars, coordVars, legacyVars,
          questionVars, settleVars, panelVars>>

\* What the actions of one component leave alone: the other components.
loopFrame == <<retryVars, execVars, pruneVars, coordVars, legacyVars,
    questionVars, settleVars, panelVars>>
retryFrame == <<globals, locals, observed, execVars, pruneVars, coordVars, legacyVars,
    questionVars, settleVars, panelVars>>
execFrame == <<globals, locals, observed, retryVars, pruneVars, coordVars, legacyVars,
    questionVars, settleVars, panelVars>>
pruneFrame == <<globals, locals, observed, retryVars, execVars, coordVars, legacyVars,
    questionVars, settleVars, panelVars>>
coordFrame == <<globals, locals, observed, retryVars, execVars, pruneVars, legacyVars,
    questionVars, settleVars, panelVars>>
legacyFrame == <<globals, locals, observed, retryVars, execVars, pruneVars, coordVars,
    questionVars, settleVars, panelVars>>

otherVars == <<retryVars, execVars, pruneVars, coordVars, legacyVars>>
questionFrame == <<globals, locals, observed, otherVars, settleVars, panelVars>>
settleFrame == <<globals, locals, observed, otherVars, questionVars, panelVars>>
panelFrame == <<otherVars, questionVars, settleVars>>

BatchPcs == {"safety", "exec", "settle", "shot", "geturl", "save_step", "sleep200"}

----
\* ---- BrowserAgent ----

UserTurn(text, by) ==
    [role |-> "user", text |-> text, thought |-> FALSE, calls |-> <<>>, resps |-> <<>>, by |-> by]

ModelTurn(c, by) ==
    [role |-> "model", text |-> c.text, thought |-> c.thought, calls |-> c.calls,
     resps |-> <<>>, by |-> by]

StartConversation(by) == <<UserTurn("prompt", by)>>

\* The follow-up starts the history over.
AddUserMessageFresh(c, by) == <<UserTurn("followup", by)>>

AddUserMessage(c, by) == Append(c, UserTurn("followup", by))

\* The model turn takes the place of the last turn.
AddModelResponseReplacesLast(c, candidate, by) ==
    IF candidate.content /\ c # <<>>
    THEN [c EXCEPT ![Len(c)] = ModelTurn(candidate, by)]
    ELSE c

AddModelResponse(c, candidate, by) ==
    IF candidate.content THEN Append(c, ModelTurn(candidate, by)) ELSE c

GetText(candidate) == IF candidate.content THEN candidate.text ELSE "none"

ExtractFunctionCalls(candidate) == IF candidate.content THEN candidate.calls ELSE <<>>

ExtractThoughtSummary(candidate) == candidate.content /\ candidate.thought

IsMalformedFunctionCall(candidate) == candidate.finishReason = "MALFORMED_FUNCTION_CALL"

\* A misspelt decision value: no call is ever gated.
RequiresSafetyConfirmationMisspelt(fc) == fc.safety = "requires_confirmation"

RequiresSafetyConfirmation(fc) == fc.safety = "require_confirmation"

IsWaitingForInput(text) == text = "question"

HasScreenshot(fr) == fr.image /\ fr.name \in PREDEFINED_COMPUTER_USE_FUNCTIONS

\* The function responses themselves are dropped, not only their screenshots.
StripResponses(frs) == <<>>

StripScreenshots(frs) ==
    [k \in 1..Len(frs) |-> IF HasScreenshot(frs[k]) THEN [frs[k] EXCEPT !.image = FALSE]
                           ELSE frs[k]]

\* Only the oldest turn with screenshots is stripped, and only when more than
\* MAX_RECENT_TURN_WITH_SCREENSHOTS turns have them.
CleanupOldestOnly(c) ==
    LET K == {i \in 1..Len(c) : c[i].role = "user" /\
                  \E k \in 1..Len(c[i].resps) : HasScreenshot(c[i].resps[k])}
    IN IF Cardinality(K) > MAX_RECENT_TURN_WITH_SCREENSHOTS
       THEN LET o == CHOOSE i \in K : \A j \in K : i <= j
            IN [c EXCEPT ![o].resps = StripScreenshots(@)]
       ELSE c

RECURSIVE CleanupFrom(_, _, _)
CleanupFrom(c, i, found) ==
    IF i = 0 THEN c
    ELSE IF c[i].role = "user" /\ \E k \in 1..Len(c[i].resps) : HasScreenshot(c[i].resps[k])
         THEN IF found + 1 > MAX_RECENT_TURN_WITH_SCREENSHOTS
              THEN CleanupFrom([c EXCEPT ![i].resps = StripScreenshots(@)], i - 1, found + 1)
              ELSE CleanupFrom(c, i - 1, found + 1)
         ELSE CleanupFrom(c, i - 1, found)

CleanupOldScreenshots(c) == CleanupFrom(c, Len(c), 0)

AddFunctionResponses(c, frs, by) ==
    CleanupOldScreenshots(Append(c, [role |-> "user", text |-> "none", thought |-> FALSE,
                                     calls |-> <<>>, resps |-> frs, by |-> by]))

----
\* ---- the loop, as segments between awaits ----
\* A segment works on the view of one invocation: the globals together with
\* that invocation's locals.  Every operator below maps a view to the view at
\* the next await (or at the end of the invocation).

View(l) ==
    [id |-> l,
     agent |-> agent, contents |-> contents, isRunning |-> isRunning,
     shouldStop |-> shouldStop, currentSettings |-> currentSettings,
     pending |-> pendingSafetyConfirmation,
     pc |-> pc[l], origin |-> origin[l], task |-> task[l], callAgent |-> callAgent[l],
     calls |-> functionCalls[l], idx |-> idx[l], resps |-> functionResponses[l],
     ack |-> safetyAcknowledgement[l], allowed |-> allowed[l], result |-> result[l],
     reasoning |-> reasoning[l], highlight |-> highlight[l], malformed |-> malformed[l],
     modelCalls |-> modelCalls, out |-> <<>>, sent |-> sent[l], firstSent |-> firstSent[l],
     isRetry |-> isRetry[l], stopSeen |-> stopSeen[l], deniedLeft |-> deniedLeft[l]]

\* The view r becomes the state of the service worker and of invocation l.
CommitLoop(l, r) ==
    /\ r.modelCalls <= MaxModelCalls
    /\ agent' = r.agent
    /\ contents' = r.contents
    /\ isRunning' = r.isRunning
    /\ shouldStop' = r.shouldStop
    /\ currentSettings' = r.currentSettings
    /\ pendingSafetyConfirmation' = r.pending
    /\ pc' = [pc EXCEPT ![l] = r.pc]
    /\ origin' = [origin EXCEPT ![l] = r.origin]
    /\ task' = [task EXCEPT ![l] = r.task]
    /\ callAgent' = [callAgent EXCEPT ![l] = r.callAgent]
    /\ functionCalls' = [functionCalls EXCEPT ![l] = r.calls]
    /\ idx' = [idx EXCEPT ![l] = r.idx]
    /\ functionResponses' = [functionResponses EXCEPT ![l] = r.resps]
    /\ safetyAcknowledgement' = [safetyAcknowledgement EXCEPT ![l] = r.ack]
    /\ allowed' = [allowed EXCEPT ![l] = r.allowed]
    /\ result' = [result EXCEPT ![l] = r.result]
    /\ reasoning' = [reasoning EXCEPT ![l] = r.reasoning]
    /\ highlight' = [highlight EXCEPT ![l] = r.highlight]
    /\ malformed' = [malformed EXCEPT ![l] = r.malformed]
    /\ modelCalls' = r.modelCalls
    /\ notified' = r.out
    /\ sent' = [sent EXCEPT ![l] = r.sent]
    /\ firstSent' = [firstSent EXCEPT ![l] = r.firstSent]
    /\ isRetry' = [isRetry EXCEPT ![l] = r.isRetry]
    /\ stopSeen' = [stopSeen EXCEPT ![l] = r.stopSeen]
    /\ deniedLeft' = [deniedLeft EXCEPT ![l] = r.deniedLeft]

Commit(l, r) ==
    /\ CommitLoop(l, r)
    /\ UNCHANGED loopFrame

\* The ERROR notifications, by the message they carry: error.message of a failed
\* getModelResponse, the literal 'No response from model', error.message of an
\* exception that left runOneIteration (or of the TypeError of a null agent).
ErrorNotifications ==
    {"ERROR api error", "ERROR No response from model", "ERROR exception"}

IsError(n) == n \in ErrorNotifications

\* The ERROR is sent twice.
SendErrorTwice(r, message) == [r EXCEPT !.out = Append(Append(@, message), message)]

\* sendToSidepanel({type: 'ERROR', message}) and ({type: 'STATUS_UPDATE', status})
SendError(r, message) == [r EXCEPT !.out = Append(@, message)]

SendStatus(r, status) == [r EXCEPT !.out = Append(@, status)]

SendConfirmation(r) == [r EXCEPT !.out = Append(@, "SAFETY_CONFIRMATION")]

\* The locals of runOneIteration cease to exist when it returns.
EndIteration(r) ==
    [r EXCEPT !.callAgent = NoAgent, !.calls = <<>>, !.idx = 0, !.resps = <<>>,
              !.ack = FALSE, !.allowed = "unset", !.result = NoResult,
              !.reasoning = "none", !.highlight = "null"]

\* The invocation is over: nothing of it is left but what it sent.
EndLoop(r) ==
    [EndIteration(r) EXCEPT !.pc = "done", !.malformed = FALSE,
                            !.sent = <<>>, !.firstSent = <<>>, !.isRetry = FALSE,
                            !.stopSeen = FALSE]

\* The loop ends but isRunning stays set.
LoopExitStillRunning(r, threw) ==
    LET c == IF threw THEN SendError(r, "ERROR exception") ELSE r
    IN IF ~r.shouldStop THEN SendStatus(EndLoop(c), "idle") ELSE EndLoop(c)

\* The end of runAgentLoop (catch / finally) or of handleUserMessage (the code
\* after its while loop / its catch).  threw: an exception left runOneIteration.
LoopExit(r, threw) ==
    IF r.origin = "runAgentLoop"
    THEN LET c == IF threw THEN SendError(r, "ERROR exception") ELSE r
             f == [EndLoop(c) EXCEPT !.isRunning = FALSE, !.pending = NoPending]
         IN IF ~r.shouldStop THEN SendStatus(f, "idle") ELSE f
    ELSE IF threw
         THEN SendError([EndLoop(r) EXCEPT !.isRunning = FALSE], "ERROR exception")
         ELSE LET f == [EndLoop(r) EXCEPT !.isRunning = FALSE]
              IN IF ~r.shouldStop THEN SendStatus(f, "idle") ELSE f

\* runOneIteration up to `await agent.getModelResponse()`.
CallModel(r) ==
    IF r.agent = NoAgent
    THEN LoopExit(SendError(r, "ERROR exception"), FALSE)   \* TypeError inside the try
    ELSE [r EXCEPT !.pc = "model", !.callAgent = r.agent,
                   !.modelCalls = @ + 1,
                   !.sent = r.contents,
                   !.isRetry = r.malformed, !.malformed = FALSE]

\* `while (isRunning && !shouldStop)`
WhileTop(r) ==
    IF r.isRunning /\ ~r.shouldStop THEN CallModel(r) ELSE LoopExit(r, FALSE)

\* `await executeAction(fc.name, fc.args, currentSettings?.highlightMouse)`
CallExecuteAction(r) ==
    [r EXCEPT !.pc = "exec", !.highlight = r.currentSettings]

\* The responses are appended whether or not a stop was requested.
AfterBatchIgnoresStop(r) ==
    IF r.agent = NoAgent THEN LoopExit(r, TRUE)
    ELSE IF r.shouldStop
         THEN LoopExit([r EXCEPT !.contents = AddFunctionResponses(r.contents, r.resps, r.task)],
                       FALSE)
         ELSE [EndIteration(r) EXCEPT
                   !.contents = AddFunctionResponses(r.contents, r.resps, r.task),
                   !.pc = "sleep300"]

\* After the for loop: `if (shouldStop) return 'COMPLETE'`, addFunctionResponses,
\* `return 'CONTINUE'`, `await sleep(300)`.
AfterBatch(r) ==
    IF r.shouldStop THEN LoopExit(r, FALSE)
    ELSE IF r.agent = NoAgent THEN LoopExit(r, TRUE)
    ELSE [EndIteration(r) EXCEPT
              !.contents = AddFunctionResponses(r.contents, r.resps, r.task),
              !.pc = "sleep300"]

\* Top of `for (const fc of functionCalls)` with r.idx the call to handle next.
ForTop(r) ==
    IF r.idx > Len(r.calls) \/ r.shouldStop THEN AfterBatch(r)
    ELSE IF r.agent = NoAgent THEN LoopExit(r, TRUE)
    ELSE LET s == [r EXCEPT !.ack = FALSE, !.allowed = "unset"]
         IN IF RequiresSafetyConfirmation(r.calls[r.idx])
            THEN SendConfirmation([s EXCEPT !.pc = "safety",
                                             !.pending = [loop |-> r.id, idx |-> r.idx]])
            ELSE CallExecuteAction(s)

\* Denial handled with `continue` instead of `return 'COMPLETE'`: the denied call
\* is skipped and the for loop goes on.
OnSafetyDecisionContinue(r, ok) ==
    IF ~ok
    THEN ForTop([r EXCEPT !.allowed = "no", !.deniedLeft = Len(r.calls) - r.idx,
                          !.idx = @ + 1])
    ELSE CallExecuteAction([r EXCEPT !.allowed = "yes", !.ack = TRUE])

\* Continuation of `const allowed = await requestSafetyConfirmation(...)`.
OnSafetyDecision(r, ok) ==
    IF ~ok
    THEN LoopExit([r EXCEPT !.allowed = "no", !.deniedLeft = Len(r.calls) - r.idx], FALSE)
    ELSE CallExecuteAction([r EXCEPT !.allowed = "yes", !.ack = TRUE])

\* The STATUS_UPDATE and `return 'COMPLETE'` that end a reply without calls.
ReportFinal(r) ==
    IF r.agent = NoAgent THEN LoopExit(r, TRUE)
    ELSE LoopExit(SendStatus(r, IF IsWaitingForInput(r.reasoning) THEN "waiting" ELSE "idle"),
                  FALSE)

\* runOneIteration from the return of getModelResponse to the next await.
\* out.kind: "error" (the call threw), "empty" (no candidates), "candidate".
OnModelResponse(r, out) ==
    IF out.kind = "error" THEN LoopExit(SendError(r, "ERROR api error"), FALSE)
    ELSE IF out.kind = "empty"
    THEN LoopExit(SendError(r, "ERROR No response from model"), FALSE)
    ELSE IF r.agent = NoAgent THEN LoopExit(r, TRUE)
    ELSE LET c == out.candidate
             a == [r EXCEPT !.contents = AddModelResponse(r.contents, c, r.callAgent),
                            !.reasoning = GetText(c),
                            !.callAgent = NoAgent, !.sent = <<>>,
                            !.firstSent = <<>>, !.isRetry = FALSE]
             fcs == ExtractFunctionCalls(c)
         IN IF fcs = <<>> /\ GetText(c) = "none" /\ IsMalformedFunctionCall(c)
            THEN [EndIteration(a) EXCEPT !.pc = "sleep300", !.malformed = TRUE,
                                         !.firstSent = r.sent]
            ELSE IF fcs = <<>>
                 THEN IF GetText(c) # "none" \/ ExtractThoughtSummary(c)
                      THEN [a EXCEPT !.pc = "save_final"]
                      ELSE ReportFinal(a)
                 ELSE ForTop([a EXCEPT !.calls = fcs, !.idx = 1, !.resps = <<>>])

\* Every response is marked as acknowledged.
RecordResponseAlwaysAck(r, url) ==
    [r EXCEPT !.resps = Append(@, [name |-> r.calls[r.idx].name, url |-> url,
                                   ack |-> TRUE, denied |-> FALSE, error |-> FALSE,
                                   image |-> TRUE]),
              !.result = NoResult,
              !.pc = "save_step"]

\* `functionResponses.push({name, response, screenshot})`, then the await of
\* saveTrajectoryToStorage.
RecordResponse(r, url) ==
    [r EXCEPT !.resps = Append(@, [name |-> r.calls[r.idx].name, url |-> url,
                                   ack |-> r.ack, denied |-> FALSE, error |-> FALSE,
                                   image |-> TRUE]),
              !.result = NoResult,
              !.pc = "save_step"]

\* Continuation of `await captureScreenshot()`; ok = FALSE: it threw.
OnScreenshot(r, ok) ==
    IF ~ok THEN LoopExit(r, TRUE)
    ELSE IF r.result.url # "" THEN RecordResponse(r, r.result.url)
    ELSE [r EXCEPT !.pc = "geturl"]

----
\* ---- message handlers (chrome.runtime.onMessage) ----

Unborn == {l \in Loops : pc[l] = "unborn"}

NewLoop == CHOOSE l \in Unborn : \A m \in Unborn : l <= m

\* The synchronous part of resetConversation.
Reset(r) ==
    [r EXCEPT !.agent = NoAgent, !.contents = <<>>, !.isRunning = FALSE,
              !.shouldStop = FALSE, !.pending = NoPending]

\* runAgentLoop(initialPrompt) with a non-empty prompt, up to its first await
\* (saveTrajectoryToStorage).  The new BrowserAgent gets the invocation's id.
RunAgentLoop(r) ==
    IF r.isRunning THEN r
    ELSE SendStatus([r EXCEPT !.isRunning = TRUE, !.shouldStop = FALSE,
                              !.origin = "runAgentLoop",
                              !.agent = r.id, !.task = r.id,
                              !.contents = StartConversation(r.id),
                              !.pc = "save_init"],
                    "running")

\* handleUserMessage(text) up to its first await.
HandleUserMessage(r) ==
    IF r.isRunning THEN r
    ELSE IF r.agent = NoAgent THEN RunAgentLoop(r)
    ELSE WhileTop(SendStatus([r EXCEPT !.contents = AddUserMessage(r.contents, r.agent),
                                       !.origin = "handleUserMessage",
                                       !.task = r.agent,
                                       !.isRunning = TRUE, !.shouldStop = FALSE],
                             "running"))

StartAgent(s) ==
    /\ Unborn # {}
    /\ Commit(NewLoop, RunAgentLoop(Reset([View(NewLoop) EXCEPT !.currentSettings = s])))

UserMessage(s) ==
    /\ Unborn # {}
    /\ Commit(NewLoop, HandleUserMessage([View(NewLoop) EXCEPT !.currentSettings = s]))

StopAgent ==
    /\ shouldStop' = TRUE
    /\ isRunning' = FALSE
    /\ pendingSafetyConfirmation' = NoPending
    /\ notified' = <<"idle">>
    /\ stopSeen' = [l \in Loops |-> stopSeen[l] \/ pc[l] \in BatchPcs]
    /\ UNCHANGED <<agent, contents, currentSettings, locals>>
    /\ UNCHANGED <<modelCalls, sent, firstSent, isRetry, deniedLeft>>
    /\ UNCHANGED loopFrame

ResetConversation ==
    /\ agent' = NoAgent
    /\ contents' = <<>>
    /\ isRunning' = FALSE
    /\ shouldStop' = FALSE
    /\ pendingSafetyConfirmation' = NoPending
    /\ notified' = <<>>
    /\ UNCHANGED <<currentSettings, locals>>
    /\ UNCHANGED <<modelCalls, sent, firstSent, isRetry, stopSeen, deniedLeft>>
    /\ UNCHANGED loopFrame

\* The response resolves the promise of any invocation that waits for a
\* decision, whether its resolve is still stored or not.
SafetyResponseAnyWaiting(ok) ==
    \E l \in Loops :
        /\ pc[l] = "safety"
        /\ Commit(l, OnSafetyDecision([View(l) EXCEPT !.pending = NoPending], ok))

\* SAFETY_RESPONSE with a confirmation pending: the stored resolve is called and
\* cleared, and the awaiting invocation continues before any other message.
SafetyResponse(ok) ==
    /\ pendingSafetyConfirmation # NoPending
    /\ LET l == pendingSafetyConfirmation.loop
       IN Commit(l, OnSafetyDecision([View(l) EXCEPT !.pending = NoPending], ok))

----
\* ---- resumption of a suspended invocation ----

SaveInitReturn(l) ==
    /\ pc[l] = "save_init"
    /\ Commit(l, WhileTop(View(l)))

ModelReturn(l, out) ==
    /\ pc[l] = "model"
    /\ Commit(l, OnModelResponse(View(l), out))

SaveFinalReturn(l) ==
    /\ pc[l] = "save_final"
    /\ Commit(l, ReportFinal(View(l)))

\* The screenshot is captured without waiting for the page to settle.
ExecReturnNoSettle(l, res) ==
    /\ pc[l] = "exec"
    /\ Commit(l, [View(l) EXCEPT !.result = res, !.pc = "shot"])

ExecReturn(l, res) ==
    /\ pc[l] = "exec"
    /\ Commit(l, [View(l) EXCEPT !.result = res, !.pc = "settle"])

SettleReturn(l) ==
    /\ pc[l] = "settle"
    /\ Commit(l, [View(l) EXCEPT !.pc = "shot"])

ShotReturn(l, ok) ==
    /\ pc[l] = "shot"
    /\ Commit(l, OnScreenshot(View(l), ok))

GetUrlReturn(l, url) ==
    /\ pc[l] = "geturl"
    /\ Commit(l, RecordResponse(View(l), url))

SaveStepReturn(l) ==
    /\ pc[l] = "save_step"
    /\ Commit(l, [View(l) EXCEPT !.pc = "sleep200"])

Sleep200Return(l) ==
    /\ pc[l] = "sleep200"
    /\ Commit(l, ForTop([View(l) EXCEPT !.idx = @ + 1]))

Sleep300Return(l) ==
    /\ pc[l] = "sleep300"
    /\ Commit(l, WhileTop(View(l)))

----
\* ---- the side panel's safety banner ----

\* A segment of invocation l with the side panel listening: a
\* SAFETY_CONFIRMATION it sent is on its way to the panel.
PanelCommit(l, r) ==
    /\ CommitLoop(l, r)
    /\ inbox' = IF \E k \in 1..Len(r.out) : r.out[k] = "SAFETY_CONFIRMATION"
                THEN Append(inbox, r.pending)
                ELSE inbox
    /\ UNCHANGED banner
    /\ UNCHANGED panelFrame

PanelModelReturn(l, out) ==
    /\ pc[l] = "model"
    /\ PanelCommit(l, OnModelResponse(View(l), out))

PanelSleep200Return(l) ==
    /\ pc[l] = "sleep200"
    /\ PanelCommit(l, ForTop([View(l) EXCEPT !.idx = @ + 1]))

\* The panel's onMessage, case 'SAFETY_CONFIRMATION': showSafetyConfirmation
\* writes the request into the banner and shows it.
ShowSafetyConfirmation ==
    /\ inbox # <<>>
    /\ banner' = Head(inbox)
    /\ inbox' = Tail(inbox)
    /\ UNCHANGED <<globals, locals, observed>>
    /\ UNCHANGED panelFrame

\* A click on Allow / Deny: handleSafetyResponse sends SAFETY_RESPONSE with
\* nothing but `allowed` and hides the banner; the service worker resolves what
\* is pending, if anything.
HandleSafetyResponse(ok) ==
    /\ banner # NoPending
    /\ banner' = NoPending
    /\ IF pendingSafetyConfirmation # NoPending
       THEN LET l == pendingSafetyConfirmation.loop
            IN CommitLoop(l, OnSafetyDecision([View(l) EXCEPT !.pending = NoPending], ok))
       ELSE UNCHANGED <<globals, locals, observed>>
    /\ UNCHANGED inbox
    /\ UNCHANGED panelFrame

ModelOutcomes ==
    {[kind |-> "error", candidate |-> <<>>], [kind |-> "empty", candidate |-> <<>>]}
    \cup {[kind |-> "candidate", candidate |-> c] : c \in Candidates}

----
\* ---- BrowserAgent.getModelResponse ----

maxRetries == 5
baseDelayMs == 1000

Responses == {"response1", "response2"}
NoResponse == "none"

\* What model.generateContent rejects with: a network error, an authorization
\* failure, an overloaded endpoint.  status / statusText "" = the field is absent.
ApiErrors ==
    {[message |-> "fetch failed", status |-> "", statusText |-> ""],
     [message |-> "API key not valid", status |-> "401", statusText |-> "Unauthorized"],
     [message |-> "model overloaded", status |-> "503", statusText |-> ""]}

RECURSIVE Pow2(_)
Pow2(n) == IF n = 0 THEN 1 ELSE 2 * Pow2(n - 1)

\* Backoff that grows by baseDelayMs each attempt instead of doubling.
BackoffDelayLinear(n) == baseDelayMs * (n + 1)

\* `baseDelayMs * Math.pow(2, attempt)`
BackoffDelay(n) == baseDelayMs * Pow2(n)

\* The error thrown after the last attempt; its message as the pieces joined.
EnhancedError(e) ==
    LET m1 == IF e.status # "" THEN <<"[", e.status, "] ", e.message>> ELSE <<e.message>>
        m2 == IF e.statusText # "" THEN m1 \o <<" (", e.statusText, ")">> ELSE m1
    IN [message |-> m2, originalError |-> e]

RetryIdle ==
    /\ gmrPc = "idle"
    /\ attempt = 0
    /\ delays = <<>>
    /\ failures = <<>>
    /\ returned = NoResponse
    /\ thrown = <<>>

\* `return result.response`
GenerateContentOk(resp) ==
    /\ gmrPc = "generate"
    /\ returned' = resp
    /\ gmrPc' = "returned"
    /\ UNCHANGED <<attempt, delays, failures, thrown>>
    /\ UNCHANGED retryFrame

\* The catch block: throw after the last attempt, sleep delayMs otherwise.
GenerateContentFail(e) ==
    /\ gmrPc = "generate"
    /\ failures' = Append(failures, e)
    /\ IF attempt = maxRetries - 1
       THEN /\ thrown' = Append(thrown, EnhancedError(e))
            /\ gmrPc' = "threw"
            /\ UNCHANGED delays
       ELSE /\ delays' = Append(delays, BackoffDelay(attempt))
            /\ gmrPc' = "backoff"
            /\ UNCHANGED thrown
    /\ UNCHANGED <<attempt, returned>>
    /\ UNCHANGED retryFrame

\* The sleep is over: `attempt++`, `attempt < maxRetries`, the next generateContent.
BackoffReturn ==
    /\ gmrPc = "backoff"
    /\ attempt + 1 < maxRetries
    /\ attempt' = attempt + 1
    /\ gmrPc' = "generate"
    /\ UNCHANGED <<delays, failures, returned, thrown>>
    /\ UNCHANGED retryFrame

----
\* ---- executeAction and the content script's EXECUTE_ACTION handler ----

actionHandlers ==
    {"click_at", "type_text_at", "scroll_document", "scroll_at", "navigate", "go_back",
     "go_forward", "hover_at", "key_combination", "drag_and_drop", "wait_5_seconds",
     "search", "open_web_browser"}

\* The action names executeAction is called with; "fly_to" is no action.
Actions == {"click_at", "navigate", "wait_5_seconds", "fly_to"}

\* chrome.tabs.query: no tab, a tab without url property, a tab with its url.
Tabs == {"none", "nourl", "url"}

\* A result: success, whether it has an error field, and its url field
\* ("absent" = no url property or undefined, "" = the empty string).
NoReturn == [success |-> FALSE, error |-> FALSE, url |-> "unset"]

\* `tab.url`
TabUrl(t) == IF t = "url" THEN "url" ELSE "absent"

\* `tab?.url || ''`
TabUrlOrEmpty(t) == IF t = "url" THEN "url" ELSE ""

\* What the content script passes to sendResponse for an action.
ContentResponses(a) ==
    IF a \notin actionHandlers
    THEN {[success |-> FALSE, error |-> TRUE, url |-> "absent"]}     \* Unknown action
    ELSE {[success |-> TRUE, error |-> FALSE, url |-> "url"],        \* handler's result
          [success |-> FALSE, error |-> TRUE, url |-> "url"],        \* handler's failure
          [success |-> FALSE, error |-> TRUE, url |-> "absent"]}     \* handler threw

\* chrome.tabs.sendMessage resolves with the content script's response or rejects.
SendRejections == {"Receiving end does not exist", "message port closed"}

SendOutcomes(a) ==
    {[kind |-> "response", value |-> v, message |-> ""] : v \in ContentResponses(a)}
    \cup {[kind |-> "reject", value |-> NoReturn, message |-> m] : m \in SendRejections}

ExecIdle ==
    /\ execPc = "idle"
    /\ action = "none"
    /\ tab = "none"
    /\ error = "none"
    /\ injectError = "none"
    /\ response = NoReturn
    /\ sends = 0
    /\ injections = 0

\* Every error is answered with a re-injection.
OuterCatchAlwaysInject(message) ==
    /\ error' = message
    /\ execPc' = "requery"

\* The outer catch up to its first await.
OuterCatch(message) ==
    /\ error' = message
    /\ execPc' = IF message = "Receiving end does not exist" THEN "requery" ELSE "query_failed"

\* The inner catch up to its await.
InnerCatch(message) ==
    /\ injectError' = message
    /\ execPc' = "query_inject_failed"

\* Continuation of the first `await chrome.tabs.query`.
QueryReturn(t) ==
    /\ execPc = "query"
    /\ tab' = t
    /\ IF t = "none"
       THEN OuterCatch("No active tab found") /\ UNCHANGED sends
       ELSE IF action = "wait_5_seconds"
            THEN execPc' = "sleep" /\ UNCHANGED <<error, sends>>
            ELSE execPc' = "send" /\ sends' = sends + 1 /\ UNCHANGED error
    /\ UNCHANGED <<action, injectError, response, injections>>
    /\ UNCHANGED execFrame

\* `return { success: true, waited: 5000, url: tab.url }`
SleepReturn ==
    /\ execPc = "sleep"
    /\ response' = [success |-> TRUE, error |-> FALSE, url |-> TabUrl(tab)]
    /\ execPc' = "returned"
    /\ UNCHANGED <<action, tab, error, injectError, sends, injections>>
    /\ UNCHANGED execFrame

\* Continuation of the first `await chrome.tabs.sendMessage`.
SendReturn(out) ==
    /\ execPc = "send"
    /\ IF out.kind = "response"
       THEN response' = out.value /\ execPc' = "returned" /\ UNCHANGED error
       ELSE OuterCatch(out.message) /\ UNCHANGED response
    /\ UNCHANGED <<action, tab, injectError, sends, injections>>
    /\ UNCHANGED execFrame

\* Continuation of the query in the outer catch; `tab.id` of no tab throws.
RequeryReturn(t) ==
    /\ execPc = "requery"
    /\ tab' = t
    /\ IF t = "none"
       THEN InnerCatch("TypeError") /\ UNCHANGED injections
       ELSE execPc' = "inject" /\ injections' = injections + 1 /\ UNCHANGED injectError
    /\ UNCHANGED <<action, error, response, sends>>
    /\ UNCHANGED execFrame

\* Continuation of `await chrome.scripting.executeScript`; ok = FALSE: it rejected.
InjectReturn(ok) ==
    /\ execPc = "inject"
    /\ IF ok
       THEN execPc' = "resend" /\ sends' = sends + 1 /\ UNCHANGED injectError
       ELSE InnerCatch("Cannot access contents of the page") /\ UNCHANGED sends
    /\ UNCHANGED <<action, tab, error, response, injections>>
    /\ UNCHANGED execFrame

\* Continuation of the retry's `await chrome.tabs.sendMessage`.
ResendReturn(out) ==
    /\ execPc = "resend"
    /\ IF out.kind = "response"
       THEN response' = out.value /\ execPc' = "returned" /\ UNCHANGED injectError
       ELSE InnerCatch(out.message) /\ UNCHANGED response
    /\ UNCHANGED <<action, tab, error, sends, injections>>
    /\ UNCHANGED execFrame

\* `return { success: false, error: 'Failed to inject ...', url: t?.url || '' }`
InjectFailedReturn(t) ==
    /\ execPc = "query_inject_failed"
    /\ tab' = t
    /\ response' = [success |-> FALSE, error |-> TRUE, url |-> TabUrlOrEmpty(t)]
    /\ execPc' = "returned"
    /\ UNCHANGED <<action, error, injectError, sends, injections>>
    /\ UNCHANGED execFrame

\* Rethrow instead of the structured result.
FailedReturnRethrow(t) ==
    /\ execPc = "query_failed"
    /\ tab' = t
    /\ execPc' = "threw"
    /\ UNCHANGED <<action, error, injectError, response, sends, injections>>
    /\ UNCHANGED execFrame

\* `return { success: false, error: error.message, url: tab?.url || '' }`
FailedReturn(t) ==
    /\ execPc = "query_failed"
    /\ tab' = t
    /\ response' = [success |-> FALSE, error |-> TRUE, url |-> TabUrlOrEmpty(t)]
    /\ execPc' = "returned"
    /\ UNCHANGED <<action, error, injectError, sends, injections>>
    /\ UNCHANGED execFrame

----
\* ---- pruning of screenshots: addFunctionResponses, _cleanupOldScreenshots ----

\* The function responses a turn can hold: of a predefined action with its
\* screenshot, of a predefined action without one (stripped), and of a function
\* that is not predefined with its screenshot (runOneIteration attaches the
\* screenshot whatever the name is).
KnownImage ==
    [name |-> "click_at", url |-> "url", ack |-> FALSE, denied |-> FALSE, error |-> FALSE,
     image |-> TRUE]

KnownStripped == [KnownImage EXCEPT !.image = FALSE]

UnknownImage == [KnownImage EXCEPT !.name = "fly_to"]

ResponseLists == {<<KnownImage>>, <<KnownStripped>>, <<UnknownImage>>, <<KnownImage, UnknownImage>>}

\* The user turn addFunctionResponses pushes.
ResponseTurn(frs, by) ==
    [role |-> "user", text |-> "none", thought |-> FALSE, calls |-> <<>>, resps |-> frs, by |-> by]

ActionCandidate ==
    [content |-> TRUE, text |-> "statement", thought |-> FALSE,
     calls |-> <<[name |-> "click_at", safety |-> "none"]>>, finishReason |-> "STOP"]

\* Every conversation of up to MaxTurns turns.
PruneTurns ==
    {ModelTurn(ActionCandidate, 1), UserTurn("followup", 1)}
    \cup {ResponseTurn(frs, 1) : frs \in ResponseLists}

Histories == SeqsUpTo(PruneTurns, MaxTurns)

PruneIdle ==
    /\ history = <<>>
    /\ before = <<>>
    /\ cleanups = 0
    /\ pruned = FALSE

\* agent.addFunctionResponses(frs): push, then _cleanupOldScreenshots.
PruneAddFunctionResponses(frs) ==
    /\ Len(history) < MaxTurns
    /\ before' = Append(history, ResponseTurn(frs, 1))
    /\ history' = AddFunctionResponses(history, frs, 1)
    /\ cleanups' = 1
    /\ pruned' = TRUE
    /\ UNCHANGED pruneFrame

\* agent.addModelResponse(candidate)
PruneAddModelResponse ==
    /\ Len(history) < MaxTurns
    /\ history' = AddModelResponse(history, ActionCandidate, 1)
    /\ before' = <<>>
    /\ cleanups' = 0
    /\ UNCHANGED pruned
    /\ UNCHANGED pruneFrame

\* agent.addUserMessage(text)
PruneAddUserMessage ==
    /\ Len(history) < MaxTurns
    /\ history' = AddUserMessage(history, 1)
    /\ before' = <<>>
    /\ cleanups' = 0
    /\ UNCHANGED pruned
    /\ UNCHANGED pruneFrame

\* agent._cleanupOldScreenshots() on the history as it is.
Cleanup ==
    /\ before' = history
    /\ history' = CleanupOldScreenshots(history)
    /\ cleanups' = IF cleanups = 0 THEN 1 ELSE 2
    /\ pruned' = TRUE
    /\ UNCHANGED pruneFrame

----
\* ---- lib/coordinates.js ----

NORMALIZED_MAX == 1000

Pixels == (0 - MaxPixel)..MaxPixel
Extents == 1..MaxExtent

\* Math.round(num / den) for den > 0: the nearest integer, a half rounded up.
Round(num, den) == (2 * num + den) \div (2 * den)

\* What Math.round yields for the double computed for num / den: the quotient
\* is computed in two floating-point steps, so a quotient that is an exact half
\* may reach Math.round just below or just above the half.
Rounded(num, den) ==
    IF (2 * num) % den = 0 /\ num % den # 0
    THEN {Round(num, den) - 1, Round(num, den)}
    ELSE {Round(num, den)}

\* The pixel is scaled to 0..100 instead of 0..NORMALIZED_MAX.
normalizeXPercent(pixelX, viewportWidth) == Rounded(pixelX * 100, viewportWidth)

\* `Math.round((pixelX / viewportWidth) * NORMALIZED_MAX)`
normalizeX(pixelX, viewportWidth) == Rounded(pixelX * NORMALIZED_MAX, viewportWidth)

\* The quotient is rounded up.
denormalizeXUp(normalizedX, viewportWidth) ==
    {(normalizedX * viewportWidth + NORMALIZED_MAX - 1) \div NORMALIZED_MAX}

\* `Math.round((normalizedX / NORMALIZED_MAX) * viewportWidth)`
denormalizeX(normalizedX, viewportWidth) == Rounded(normalizedX * viewportWidth, NORMALIZED_MAX)

\* `x >= 0 && x < NORMALIZED_MAX && y >= 0 && y < NORMALIZED_MAX`
isValidNormalizedCoords(x, y) == x >= 0 /\ x < NORMALIZED_MAX /\ y >= 0 /\ y < NORMALIZED_MAX

\* `x >= 0 && x < viewportWidth && y >= 0 && y < viewportHeight`
isWithinViewport(x, y, viewportWidth, viewportHeight) ==
    x >= 0 /\ x < viewportWidth /\ y >= 0 /\ y < viewportHeight

\* The coordinates denormalizeX / denormalizeY are called with, valid or not.
NormalizedCoords == (0 - 1)..NORMALIZED_MAX

Viewports == 1..MaxViewport

CoordIdle ==
    /\ coordPc = "idle"
    /\ pixel = 0
    /\ extent = 1
    /\ normalized = 0
    /\ roundTrip = 0

Normalize ==
    /\ coordPc = "pixel"
    /\ normalized' \in normalizeX(pixel, extent)
    /\ coordPc' = "normalized"
    /\ UNCHANGED <<pixel, extent, roundTrip>>
    /\ UNCHANGED coordFrame

Denormalize ==
    /\ coordPc = "normalized"
    /\ roundTrip' \in denormalizeX(normalized, extent)
    /\ coordPc' = "denormalized"
    /\ UNCHANGED <<pixel, extent, normalized>>
    /\ UNCHANGED coordFrame

----
\* ---- the batch loop of the earlier service worker (skips on denial) ----

LegacyBatches == CallSeqs \ {<<>>}

LegacyIdle ==
    /\ legacyPc = "idle"
    /\ legacyCalls = <<>>
    /\ legacyIdx = 0
    /\ legacyResponses = <<>>
    /\ legacyStop = FALSE
    /\ legacyPending = FALSE
    /\ legacyExecuted = {}

\* Top of `for (const fc of functionCalls)` at position i, up to the next await;
\* after the loop `if (shouldStop) break`, then waitForPageSettle.
LegacyForTop(calls, i) ==
    /\ legacyIdx' = i
    /\ IF i > Len(calls) \/ legacyStop
       THEN /\ legacyPc' = IF legacyStop THEN "stopped" ELSE "settle"
            /\ legacyPending' = FALSE
            /\ UNCHANGED legacyExecuted
       ELSE IF RequiresSafetyConfirmation(calls[i])
            THEN /\ legacyPc' = "safety"
                 /\ legacyPending' = TRUE
                 /\ UNCHANGED legacyExecuted
            ELSE /\ legacyPc' = "exec"
                 /\ legacyPending' = FALSE
                 /\ legacyExecuted' = legacyExecuted \cup {i}

\* Continuation of `await callGeminiAPI` with a reply that holds function calls.
LegacyApiReturn(calls) ==
    /\ legacyPc = "api"
    /\ legacyCalls' = calls
    /\ legacyResponses' = <<>>
    /\ LegacyForTop(calls, 1)
    /\ UNCHANGED legacyStop
    /\ UNCHANGED legacyFrame

\* SAFETY_RESPONSE while the confirmation is pending: on denial the response
\* {denied: true, reason} is pushed and the for loop continues with the next call.
LegacySafetyResponse(ok) ==
    /\ legacyPc = "safety"
    /\ legacyPending
    /\ IF ok
       THEN /\ legacyPc' = "exec"
            /\ legacyPending' = FALSE
            /\ legacyExecuted' = legacyExecuted \cup {legacyIdx}
            /\ UNCHANGED <<legacyIdx, legacyResponses>>
       ELSE /\ legacyResponses' = Append(legacyResponses,
                   [name |-> legacyCalls[legacyIdx].name, denied |-> TRUE, ack |-> FALSE])
            /\ LegacyForTop(legacyCalls, legacyIdx + 1)
    /\ UNCHANGED <<legacyCalls, legacyStop>>
    /\ UNCHANGED legacyFrame

\* Continuation of `await executeAction`: buildFunctionResponse, then sleep(200).
LegacyExecReturn ==
    /\ legacyPc = "exec"
    /\ legacyResponses' = Append(legacyResponses,
           [name |-> legacyCalls[legacyIdx].name, denied |-> FALSE,
            ack |-> RequiresSafetyConfirmation(legacyCalls[legacyIdx])])
    /\ legacyPc' = "sleep200"
    /\ UNCHANGED <<legacyCalls, legacyIdx, legacyStop, legacyPending, legacyExecuted>>
    /\ UNCHANGED legacyFrame

LegacySleepReturn ==
    /\ legacyPc = "sleep200"
    /\ LegacyForTop(legacyCalls, legacyIdx + 1)
    /\ UNCHANGED <<legacyCalls, legacyResponses, legacyStop>>
    /\ UNCHANGED legacyFrame

\* waitForPageSettle, captureScreenshot, the push of the user turn, sleep(300).
LegacySettleReturn ==
    /\ legacyPc = "settle"
    /\ legacyPc' = "done"
    /\ UNCHANGED <<legacyCalls, legacyIdx, legacyResponses, legacyStop, legacyPending,
                   legacyExecuted>>
    /\ UNCHANGED legacyFrame

\* STOP_AGENT
LegacyStopAgent ==
    /\ ~legacyStop
    /\ legacyStop' = TRUE
    /\ legacyPending' = FALSE
    /\ UNCHANGED <<legacyPc, legacyCalls, legacyIdx, legacyResponses, legacyExecuted>>
    /\ UNCHANGED legacyFrame

----
\* ---- BrowserAgent.isWaitingForInput ----

\* A text is a sequence of pieces; the pieces are chosen so that a trigger
\* phrase occurs in a text only as one piece, or as "can you " followed by
\* its verb.
Pieces ==
    {"?", "\n", " ", "Done.", "please confirm", "should I", "SHOULD I", "would you like",
     "which one", "do you want", "can you ", "Can You ", "tell", "provide", "specify", "help",
     "let me know"}

Texts == SeqsUpTo(Pieces, MaxPieces)

\* The piece in lower case: what the `i` flag compares.
LowerCase(piece) ==
    CASE piece = "should I" -> "should i"
      [] piece = "SHOULD I" -> "should i"
      [] piece = "Can You " -> "can you "
      [] piece = "Done." -> "done."
      [] OTHER -> piece

\* /\?$/ : a '?' at the very end of the text only.
QuestionMarkAtEnd(text) == text # <<>> /\ text[Len(text)] = "?"

\* /\?$/m : with the m flag `$` matches at the end of the text and before
\* every line terminator.
QuestionMarkAtLineEnd(text) ==
    \E i \in 1..Len(text) : text[i] = "?" /\ (i = Len(text) \/ text[i + 1] = "\n")

\* /please confirm/i ... /let me know/i
PhraseIndicators ==
    {"please confirm", "should i", "would you like", "which one", "do you want", "let me know"}

\* /can you (tell|provide|specify)/i
CanYouVerbs == {"tell", "provide", "specify"}

MatchesPhrase(text) ==
    \E i \in 1..Len(text) :
        \/ LowerCase(text[i]) \in PhraseIndicators
        \/ /\ LowerCase(text[i]) = "can you "
           /\ i < Len(text)
           /\ LowerCase(text[i + 1]) \in CanYouVerbs

\* The first indicator without its m flag.
isWaitingForInputNoFlag(text) ==
    IF text = <<>> THEN FALSE ELSE QuestionMarkAtEnd(text) \/ MatchesPhrase(text)

\* `if (!text) return false; return questionIndicators.some(p => p.test(text))`
isWaitingForInput(text) ==
    IF text = <<>> THEN FALSE ELSE QuestionMarkAtLineEnd(text) \/ MatchesPhrase(text)

IsWaitingForInputReturn ==
    /\ waiting = "unset"
    /\ waiting' = IF isWaitingForInput(questionText) THEN "true" ELSE "false"
    /\ UNCHANGED questionText
    /\ UNCHANGED questionFrame

----
\* ---- waitForPageSettle ----

\* `setTimeout(..., 10000)`, in seconds.
TimeoutSeconds == 10

TabStatuses == {"none", "loading", "complete"}

\* Continuation of the first `await sleep(500)`: chrome.tabs.query is called.
Sleep500Return ==
    /\ settlePc = "sleep500"
    /\ settlePc' = "query"
    /\ UNCHANGED <<tabStatus, queried, listening, elapsed, events>>
    /\ UNCHANGED settleFrame

\* The browser reads the tab for the query in flight.
QueryReadsTab ==
    /\ settlePc = "query"
    /\ queried = "unset"
    /\ queried' = tabStatus
    /\ UNCHANGED <<settlePc, tabStatus, listening, elapsed, events>>
    /\ UNCHANGED settleFrame

\* Continuation of `await chrome.tabs.query`: with a tab that was loading, the
\* listener is added and the timer set; the promise is awaited.
SettleQueryReturn ==
    /\ settlePc = "query"
    /\ queried # "unset"
    /\ IF queried = "loading"
       THEN /\ settlePc' = "loading"
            /\ listening' = TRUE
            /\ elapsed' = 0
       ELSE /\ settlePc' = "returned"
            /\ UNCHANGED <<listening, elapsed>>
    /\ UNCHANGED <<tabStatus, queried, events>>
    /\ UNCHANGED settleFrame

\* chrome.tabs.query rejects: the catch logs, the function returns.
SettleQueryReject ==
    /\ settlePc = "query"
    /\ settlePc' = "returned"
    /\ UNCHANGED <<tabStatus, queried, listening, elapsed, events>>
    /\ UNCHANGED settleFrame

\* The tab finishes loading: onUpdated fires with status 'complete'.  A
\* registered listener removes itself and resolves; with no listener registered
\* the event is lost.
TabComplete ==
    /\ tabStatus = "loading"
    /\ events < MaxEvents
    /\ tabStatus' = "complete"
    /\ events' = events + 1
    /\ IF listening /\ settlePc = "loading"
       THEN settlePc' = "sleep500b" /\ listening' = FALSE
       ELSE UNCHANGED <<settlePc, listening>>
    /\ UNCHANGED <<queried, elapsed>>
    /\ UNCHANGED settleFrame

\* The tab starts another navigation.
TabNavigate ==
    /\ tabStatus = "complete"
    /\ events < MaxEvents
    /\ tabStatus' = "loading"
    /\ events' = events + 1
    /\ UNCHANGED <<settlePc, queried, listening, elapsed>>
    /\ UNCHANGED settleFrame

\* A second of the timer passes.
Tick ==
    /\ settlePc = "loading"
    /\ elapsed < TimeoutSeconds
    /\ elapsed' = elapsed + 1
    /\ UNCHANGED <<settlePc, tabStatus, queried, listening, events>>
    /\ UNCHANGED settleFrame

\* The timer only removes the listener; the promise stays unresolved.
TimeoutNoResolve ==
    /\ settlePc = "loading"
    /\ elapsed = TimeoutSeconds
    /\ listening' = FALSE
    /\ UNCHANGED <<settlePc, tabStatus, queried, elapsed, events>>
    /\ UNCHANGED settleFrame

\* The setTimeout callback: removeListener, resolve.
Timeout ==
    /\ settlePc = "loading"
    /\ elapsed = TimeoutSeconds
    /\ settlePc' = "sleep500b"
    /\ listening' = FALSE
    /\ UNCHANGED <<tabStatus, queried, elapsed, events>>
    /\ UNCHANGED settleFrame

\* Continuation of the second `await sleep(500)`.
Sleep500bReturn ==
    /\ settlePc = "sleep500b"
    /\ settlePc' = "returned"
    /\ UNCHANGED <<tabStatus, queried, listening, elapsed, events>>
    /\ UNCHANGED settleFrame

----
QuestionIdle ==
    /\ questionText = <<>>
    /\ waiting = "unset"

SettleIdle ==
    /\ settlePc = "idle"
    /\ tabStatus = "none"
    /\ queried = "unset"
    /\ listening = FALSE
    /\ elapsed = 0
    /\ events = 0

PanelIdle ==
    /\ banner = NoPending
    /\ inbox = <<>>

OthersIdle == QuestionIdle /\ SettleIdle /\ PanelIdle

----
LoopIdle ==
    /\ agent = NoAgent
    /\ contents = <<>>
    /\ isRunning = FALSE
    /\ shouldStop = FALSE
    /\ currentSettings = "null"
    /\ pendingSafetyConfirmation = NoPending
    /\ pc = [l \in Loops |-> "unborn"]
    /\ origin = [l \in Loops |-> "none"]
    /\ task = [l \in Loops |-> NoAgent]
    /\ callAgent = [l \in Loops |-> NoAgent]
    /\ functionCalls = [l \in Loops |-> <<>>]
    /\ idx = [l \in Loops |-> 0]
    /\ functionResponses = [l \in Loops |-> <<>>]
    /\ safetyAcknowledgement = [l \in Loops |-> FALSE]
    /\ allowed = [l \in Loops |-> "unset"]
    /\ result = [l \in Loops |-> NoResult]
    /\ reasoning = [l \in Loops |-> "none"]
    /\ highlight = [l \in Loops |-> "null"]
    /\ malformed = [l \in Loops |-> FALSE]
    /\ modelCalls = 0
    /\ notified = <<>>
    /\ sent = [l \in Loops |-> <<>>]
    /\ firstSent = [l \in Loops |-> <<>>]
    /\ isRetry = [l \in Loops |-> FALSE]
    /\ stopSeen = [l \in Loops |-> FALSE]
    /\ deniedLeft = [l \in Loops |-> -1]

Init ==
    LoopIdle /\ RetryIdle /\ ExecIdle /\ PruneIdle /\ CoordIdle /\ LegacyIdle /\ OthersIdle

Next ==
    \/ \E s \in Settings : StartAgent(s)
    \/ \E s \in Settings : UserMessage(s)
    \/ StopAgent
    \/ ResetConversation
    \/ \E ok \in BOOLEAN : SafetyResponse(ok)
    \/ \E l \in Loops : SaveInitReturn(l)
    \/ \E l \in Loops, out \in ModelOutcomes : ModelReturn(l, out)
    \/ \E l \in Loops : SaveFinalReturn(l)
    \/ \E l \in Loops, res \in ActionResults : ExecReturn(l, res)
    \/ \E l \in Loops : SettleReturn(l)
    \/ \E l \in Loops, ok \in BOOLEAN : ShotReturn(l, ok)
    \/ \E l \in Loops, url \in Urls : GetUrlReturn(l, url)
    \/ \E l \in Loops : SaveStepReturn(l)
    \/ \E l \in Loops : Sleep200Return(l)
    \/ \E l \in Loops : Sleep300Return(l)

Spec == Init /\ [][Next]_vars

\* The loop with two different settings objects in the messages of the side
\* panel, and no STOP_AGENT / RESET_CONVERSATION.
SettingsChoices == {"s1", "s2"}

NextSettings ==
    \/ \E s \in SettingsChoices : StartAgent(s)
    \/ \E s \in SettingsChoices : UserMessage(s)
    \/ \E ok \in BOOLEAN : SafetyResponse(ok)
    \/ \E l \in Loops : SaveInitReturn(l)
    \/ \E l \in Loops, out \in ModelOutcomes : ModelReturn(l, out)
    \/ \E l \in Loops : SaveFinalReturn(l)
    \/ \E l \in Loops, res \in ActionResults : ExecReturn(l, res)
    \/ \E l \in Loops : SettleReturn(l)
    \/ \E l \in Loops, ok \in BOOLEAN : ShotReturn(l, ok)
    \/ \E l \in Loops, url \in Urls : GetUrlReturn(l, url)
    \/ \E l \in Loops : SaveStepReturn(l)
    \/ \E l \in Loops : Sleep200Return(l)
    \/ \E l \in Loops : Sleep300Return(l)

SpecSettings == Init /\ [][NextSettings]_vars

\* The continuation of whatever external call (storage, model, action, page
\* settle, screenshot, tab query, timer) invocation l awaits; the safety
\* decision is the user's and is not among them.
Resume(l) ==
    \/ SaveInitReturn(l)
    \/ \E out \in ModelOutcomes : ModelReturn(l, out)
    \/ SaveFinalReturn(l)
    \/ \E res \in ActionResults : ExecReturn(l, res)
    \/ SettleReturn(l)
    \/ \E ok \in BOOLEAN : ShotReturn(l, ok)
    \/ \E url \in Urls : GetUrlReturn(l, url)
    \/ SaveStepReturn(l)
    \/ Sleep200Return(l)
    \/ Sleep300Return(l)

NextLive ==
    \/ \E s \in Settings : StartAgent(s)
    \/ StopAgent
    \/ \E ok \in BOOLEAN : SafetyResponse(ok)
    \/ \E l \in Loops : Resume(l)

\* Tasks started and stopped from the side panel, every external call returning
\* eventually; the user need not answer a confirmation request.
SpecLive == Init /\ [][NextLive]_vars /\ \A l \in Loops : WF_vars(Resume(l))

\* One call of getModelResponse, from its first generateContent.
InitRetry ==
    /\ OthersIdle
    /\ LoopIdle
    /\ ExecIdle
    /\ PruneIdle
    /\ CoordIdle
    /\ LegacyIdle
    /\ gmrPc = "generate"
    /\ attempt = 0
    /\ delays = <<>>
    /\ failures = <<>>
    /\ returned = NoResponse
    /\ thrown = <<>>

NextRetry ==
    \/ \E resp \in Responses : GenerateContentOk(resp)
    \/ \E e \in ApiErrors : GenerateContentFail(e)
    \/ BackoffReturn

SpecRetry == InitRetry /\ [][NextRetry]_vars

\* One call of executeAction(action, args, highlightMouse), from its first await.
InitExec ==
    /\ OthersIdle
    /\ LoopIdle
    /\ RetryIdle
    /\ PruneIdle
    /\ CoordIdle
    /\ LegacyIdle
    /\ execPc = "query"
    /\ action \in Actions
    /\ tab = "none"
    /\ error = "none"
    /\ injectError = "none"
    /\ response = NoReturn
    /\ sends = 0
    /\ injections = 0

NextExec ==
    \/ \E t \in Tabs : QueryReturn(t)
    \/ SleepReturn
    \/ \E out \in SendOutcomes(action) : SendReturn(out)
    \/ \E t \in Tabs : RequeryReturn(t)
    \/ \E ok \in BOOLEAN : InjectReturn(ok)
    \/ \E out \in SendOutcomes(action) : ResendReturn(out)
    \/ \E t \in Tabs : InjectFailedReturn(t)
    \/ \E t \in Tabs : FailedReturn(t)

SpecExec == InitExec /\ [][NextExec]_vars

\* A new BrowserAgent (contents = []) and the calls that change its history.
InitPrune ==
    /\ OthersIdle
    /\ LoopIdle
    /\ RetryIdle
    /\ ExecIdle
    /\ CoordIdle
    /\ LegacyIdle
    /\ PruneIdle

NextPrune ==
    \/ \E frs \in ResponseLists : PruneAddFunctionResponses(frs)
    \/ PruneAddModelResponse
    \/ PruneAddUserMessage
    \/ Cleanup

SpecPrune == InitPrune /\ [][NextPrune]_vars

\* _cleanupOldScreenshots on any conversation, run again and again.
InitCleanup ==
    /\ OthersIdle
    /\ LoopIdle
    /\ RetryIdle
    /\ ExecIdle
    /\ CoordIdle
    /\ LegacyIdle
    /\ history \in Histories
    /\ before = <<>>
    /\ cleanups = 0
    /\ pruned = FALSE

NextCleanup == Cleanup

SpecCleanup == InitCleanup /\ [][NextCleanup]_vars

\* One pixel coordinate and one extent, normalized and denormalized again.
InitCoord ==
    /\ OthersIdle
    /\ LoopIdle
    /\ RetryIdle
    /\ ExecIdle
    /\ PruneIdle
    /\ LegacyIdle
    /\ coordPc = "pixel"
    /\ pixel \in Pixels
    /\ extent \in Extents
    /\ normalized = 0
    /\ roundTrip = 0

NextCoord == Normalize \/ Denormalize

SpecCoord == InitCoord /\ [][NextCoord]_vars

\* isWaitingForInput called with any text of up to MaxPieces pieces.
InitQuestion ==
    /\ LoopIdle /\ RetryIdle /\ ExecIdle /\ PruneIdle /\ CoordIdle /\ LegacyIdle
    /\ SettleIdle /\ PanelIdle
    /\ questionText \in Texts
    /\ waiting = "unset"

NextQuestion == IsWaitingForInputReturn

SpecQuestion == InitQuestion /\ [][NextQuestion]_vars

\* One call of waitForPageSettle, with the active tab in any status.  Timers
\* fire and chrome.tabs.query settles; the tab need not ever complete.
InitSettle ==
    /\ LoopIdle /\ RetryIdle /\ ExecIdle /\ PruneIdle /\ CoordIdle /\ LegacyIdle
    /\ QuestionIdle /\ PanelIdle
    /\ settlePc = "sleep500"
    /\ tabStatus \in TabStatuses
    /\ queried = "unset"
    /\ listening = FALSE
    /\ elapsed = 0
    /\ events = 0

SettleStep ==
    \/ Sleep500Return
    \/ QueryReadsTab
    \/ SettleQueryReturn
    \/ Tick
    \/ Timeout
    \/ Sleep500bReturn

NextSettle ==
    \/ SettleStep
    \/ SettleQueryReject
    \/ TabComplete
    \/ TabNavigate

SpecSettle == InitSettle /\ [][NextSettle]_vars /\ WF_vars(SettleStep)

\* One normalized coordinate denormalized to a viewport extent; denormalizeX
\* and denormalizeY are the same function of the coordinate and the extent.
InitViewport ==
    /\ OthersIdle
    /\ LoopIdle /\ RetryIdle /\ ExecIdle /\ PruneIdle /\ LegacyIdle
    /\ coordPc = "normalized"
    /\ pixel = 0
    /\ extent \in Viewports
    /\ normalized \in NormalizedCoords
    /\ roundTrip = 0

NextViewport == Denormalize

SpecViewport == InitViewport /\ [][NextViewport]_vars

\* The service worker with its side panel: tasks are started, confirmation
\* requests travel to the panel, the user answers the banner the panel shows.
NextPanel ==
    \/ \E s \in Settings : StartAgent(s)
    \/ ShowSafetyConfirmation
    \/ \E ok \in BOOLEAN : HandleSafetyResponse(ok)
    \/ \E l \in Loops : SaveInitReturn(l)
    \/ \E l \in Loops, out \in ModelOutcomes : PanelModelReturn(l, out)
    \/ \E l \in Loops : SaveFinalReturn(l)
    \/ \E l \in Loops, res \in ActionResults : ExecReturn(l, res)
    \/ \E l \in Loops : SettleReturn(l)
    \/ \E l \in Loops, ok \in BOOLEAN : ShotReturn(l, ok)
    \/ \E l \in Loops, url \in Urls : GetUrlReturn(l, url)
    \/ \E l \in Loops : SaveStepReturn(l)
    \/ \E l \in Loops : PanelSleep200Return(l)
    \/ \E l \in Loops : Sleep300Return(l)

SpecPanel == Init /\ [][NextPanel]_vars

\* One iteration of the earlier loop, from its model call.
InitLegacy ==
    /\ OthersIdle
    /\ LoopIdle
    /\ RetryIdle
    /\ ExecIdle
    /\ PruneIdle
    /\ CoordIdle
    /\ legacyPc = "api"
    /\ legacyCalls = <<>>
    /\ legacyIdx = 0
    /\ legacyResponses = <<>>
    /\ legacyStop = FALSE
    /\ legacyPending = FALSE
    /\ legacyExecuted = {}

NextLegacy ==
    \/ \E calls \in LegacyBatches : LegacyApiReturn(calls)
    \/ \E ok \in BOOLEAN : LegacySafetyResponse(ok)
    \/ LegacyExecReturn
    \/ LegacySleepReturn
    \/ LegacySettleReturn
    \/ LegacyStopAgent

SpecLegacy == InitLegacy /\ [][NextLegacy]_vars

----
\* ---- properties ----

Gated(l) ==
    /\ idx[l] \in 1..Len(functionCalls[l])
    /\ functionCalls[l][idx[l]].safety = "require_confirmation"

\* C1: a function call whose safety decision is "require_confirmation" is in
\* executeAction only after SAFETY_RESPONSE has resolved the confirmation that
\* the loop requested for it, whatever start, follow-up, stop and reset
\* messages were handled in between.
C1_GatedActionNeedsDecision ==
    \A l \in Loops : pc[l] = "exec" /\ Gated(l) => allowed[l] # "unset"

C1_Witness ==
    \E l \in Loops : pc[l] = "exec" /\ Gated(l) /\ allowed[l] = "yes"

\* C2: at most one model call and at most one action execution is in flight.
C2_OneInFlight ==
    /\ Cardinality({l \in Loops : pc[l] = "model"}) <= 1
    /\ Cardinality({l \in Loops : pc[l] = "exec"}) <= 1

\* C3: once stop() was called during a loop's batch, that loop passes no
\* further call to executeAction and issues no further model call.
C3_StopEndsBatch ==
    [][\A l \in Loops :
          stopSeen[l] => /\ ~(pc[l] # "exec" /\ pc'[l] = "exec")
                         /\ ~(pc[l] # "model" /\ pc'[l] = "model")]_vars

DeniedRecorded ==
    \E i \in 1..Len(contents) : \E k \in 1..Len(contents[i].resps) : contents[i].resps[k].denied

\* C5: after allowed=false the conversation holds a function response that
\* marks the action denied.
C5_DenialRecorded ==
    (\E l \in Loops : deniedLeft[l] >= 0) => DeniedRecorded

\* C6: a segment that reports WAITING for a reply without function calls does
\* not report IDLE after it.
C6_WaitingIsFinal ==
    (\E i \in 1..Len(notified) : notified[i] = "waiting")
        => notified[Len(notified)] = "waiting"

\* C7: the model call that re-issues a malformed one is sent the history the
\* malformed one was sent.
C7_RetrySendsSameHistory ==
    \A l \in Loops : pc[l] = "model" /\ isRetry[l] => sent[l] = firstSent[l]

\* C8: START_AGENT or USER_MESSAGE handled while isRunning starts no loop and
\* leaves the conversation as it was.
C8_ConcurrentStartRejected ==
    [][isRunning /\ (\E s \in Settings : StartAgent(s) \/ UserMessage(s))
          => pc' = pc /\ contents' = contents /\ agent' = agent]_vars

\* C9: a pending safety confirmation is never replaced by another one.
C9_PendingNeverOverwritten ==
    [][pendingSafetyConfirmation # NoPending
          => pendingSafetyConfirmation' \in {NoPending, pendingSafetyConfirmation}]_vars

\* C10: the conversation starts with the user turn of the task's prompt and
\* holds only turns produced for that task.
C10_OnlyTurnsOfTheTask ==
    agent # NoAgent =>
        /\ Len(contents) >= 1
        /\ contents[1] = UserTurn("prompt", agent)
        /\ \A i \in 1..Len(contents) : contents[i].by = agent

\* C11: USER_MESSAGE to a session that is not running and has a conversation
\* appends exactly one user turn with the follow-up text, keeps every earlier
\* turn unchanged and in order before it, and the loop runs again: isRunning
\* is set and the new invocation is at its model call.
C11_FollowUpAppendsOneTurn ==
    [][(~isRunning /\ agent # NoAgent /\ \E s \in Settings : UserMessage(s))
          => /\ contents' = Append(contents, UserTurn("followup", agent))
             /\ agent' = agent
             /\ isRunning'
             /\ pc'[NewLoop] = "model"]_vars

C11_Witness ==
    \E l \in Loops :
        /\ origin[l] = "handleUserMessage" /\ pc[l] = "model" /\ isRunning
        /\ Len(contents) >= 3
        /\ contents[Len(contents)] = UserTurn("followup", agent)

C13_AuthFailureNotRetried ==
    (\E i \in 1..Len(failures) : failures[i].status = "401")
        => Len(failures) = 1 /\ gmrPc = "threw" /\ delays = <<>>

ErrorCount(seq) == Cardinality({i \in 1..Len(seq) : IsError(seq[i])})

\* The step is a terminal error of invocation l: its model call failed or gave
\* no candidates, captureScreenshot threw, or it used the agent after a reset
\* had set it to null.
TerminalError(l) ==
    \/ \E out \in ModelOutcomes : out.kind # "candidate" /\ ModelReturn(l, out)
    \/ ShotReturn(l, FALSE)
    \/ agent = NoAgent /\ \E out \in ModelOutcomes : out.kind = "candidate" /\ ModelReturn(l, out)
    \/ agent = NoAgent /\ SaveFinalReturn(l)
    \/ agent = NoAgent /\ ~shouldStop /\ Sleep200Return(l)
    \/ agent = NoAgent /\ isRunning /\ ~shouldStop /\ (Sleep300Return(l) \/ SaveInitReturn(l))

\* C14: a step in which a task meets a terminal error sends exactly one ERROR
\* notification, and no step sends more than one.
C14_OneErrorPerTerminalError ==
    [][/\ ErrorCount(notified') <= 1
       /\ \A l \in Loops : TerminalError(l) => ErrorCount(notified') = 1]_vars

C14_Witness ==
    /\ ErrorCount(notified) = 1
    /\ notified[1] = "ERROR exception"
    /\ \E l \in Loops : pc[l] = "done"

ModelCallFailed(l) ==
    \E out \in ModelOutcomes : out.kind = "error" /\ ModelReturn(l, out)

\* C15: when the model call of a loop fails, that loop is over and isRunning is
\* false, the step starts no action and no model call; and a model call is
\* only issued while isRunning is set or by START_AGENT / USER_MESSAGE.
C15_ApiErrorEndsTask ==
    [][/\ \A l \in Loops : ModelCallFailed(l) =>
              /\ ~isRunning'
              /\ pc'[l] = "done"
              /\ modelCalls' = modelCalls
              /\ \A m \in Loops : pc'[m] = "exec" => pc[m] = "exec"
       /\ modelCalls' > modelCalls =>
              isRunning \/ \E s \in Settings : StartAgent(s) \/ UserMessage(s)
       /\ (isRunning' /\ ~isRunning) =>
              \E s \in Settings : StartAgent(s) \/ UserMessage(s)]_vars

C15_Witness ==
    /\ Len(notified) >= 1
    /\ notified[1] = "ERROR api error"
    /\ ~isRunning
    /\ modelCalls >= 1

SafetyBlocked(l) ==
    \E out \in ModelOutcomes :
        /\ out.kind = "candidate"
        /\ out.candidate.finishReason = "SAFETY"
        /\ ModelReturn(l, out)

\* C16: a reply whose finish reason is SAFETY is surfaced as an error: the
\* step that handles it sends an ERROR notification.
C16_SafetyBlockIsError ==
    [][\A l \in Loops : SafetyBlocked(l) => ErrorCount(notified') >= 1]_vars

\* C17: the function response recorded for an action whose result has
\* success = false carries the error.
C17_FailureIsRecorded ==
    [][\A l \in Loops :
          (pc[l] \in {"shot", "geturl"} /\ pc'[l] = "save_step" /\ ~result[l].success)
              => functionResponses'[l][Len(functionResponses'[l])].error]_vars

C20_ResultHasUrl ==
    execPc = "returned" => response.url # "absent"

ImageTurns(c) == {i \in 1..Len(c) : \E k \in 1..Len(c[i].resps) : c[i].resps[k].image}

KnownImageTurns(c) ==
    {i \in 1..Len(c) : \E k \in 1..Len(c[i].resps) : HasScreenshot(c[i].resps[k])}

\* C21: after the pruning has run, the 3 most recent turns that carried an
\* image-bearing response of a known action are as they were, every older such
\* turn has no image payload left, and at most 3 turns of the conversation
\* carry screenshots from then on.
C21_ThreeMostRecentKeepImages ==
    /\ cleanups >= 1 =>
          LET K == KnownImageTurns(before)
              recent == {i \in K : Cardinality({j \in K : j > i}) < 3}
          IN \A i \in K : IF i \in recent THEN history[i] = before[i]
                          ELSE \A k \in 1..Len(history[i].resps) : ~history[i].resps[k].image
    /\ pruned => Cardinality(ImageTurns(history)) <= 3

\* C22: a second run of the pruning with no turn pushed in between leaves the
\* conversation exactly as the first run left it.
C22_PruningIdempotent ==
    cleanups = 2 => history = before

C22_Witness ==
    /\ cleanups = 2
    /\ Len(history) = 5
    /\ Cardinality(KnownImageTurns(history)) = 3
    /\ history[1].resps = <<KnownStripped, UnknownImage>>
    /\ history[2].resps = <<KnownStripped>>

Unimaged(turn) ==
    [turn EXCEPT !.resps = [k \in 1..Len(@) |-> [@[k] EXCEPT !.image = FALSE]]]

\* C23: the pruning changes nothing but image payloads: the turns, their
\* order, roles, text, function calls and every function response's name and
\* response fields are as before.
C23_PruningOnlyStripsImages ==
    cleanups >= 1 =>
        /\ Len(history) = Len(before)
        /\ \A i \in 1..Len(history) : Unimaged(history[i]) = Unimaged(before[i])

C23_Witness ==
    /\ cleanups = 1
    /\ Len(history) = 5
    /\ history # before
    /\ Cardinality(KnownImageTurns(before)) = 4
    /\ \E i \in 1..Len(history) : history[i].resps = <<KnownStripped, UnknownImage>>

Abs(n) == IF n < 0 THEN 0 - n ELSE n

C25_AckIffGatedAndApproved ==
    \A l \in Loops :
        /\ Len(functionResponses[l]) <= Len(functionCalls[l])
        /\ \A k \in 1..Len(functionResponses[l]) :
              functionResponses[l][k].ack <=> RequiresSafetyConfirmation(functionCalls[l][k])

C25_Witness ==
    \E l \in Loops :
        /\ Len(functionResponses[l]) = 2
        /\ functionResponses[l][1].ack
        /\ ~functionResponses[l][2].ack

Running(l) == pc[l] \notin {"unborn", "done"}

\* C26: while a loop invocation runs, the settings it uses (currentSettings,
\* read at every executeAction) do not change, whatever message arrives.
C26_SettingsFixedWhileRunning ==
    [][\A l \in Loops : Running(l) /\ Running(l)' => currentSettings' = currentSettings]_vars

\* The safety decision invocation l awaits can still be supplied: the pending
\* confirmation is the one l registered.
DecisionCanBeSupplied(l) ==
    pendingSafetyConfirmation # NoPending /\ pendingSafetyConfirmation.loop = l

\* C27: an invocation that waits for a safety decision which can no longer be
\* supplied is not blocked forever: it eventually takes its next step or ends.
C27_NeverBlockedForever ==
    \A l \in Loops :
        (pc[l] = "safety" /\ ~DecisionCanBeSupplied(l)) ~> (pc[l] # "safety")

\* C28: in the loop that skips on denial, no call after a denied call of the
\* batch is passed to executeAction.
C28_DenialSkipsRestOfBatch ==
    \A k \in 1..Len(legacyResponses) :
        legacyResponses[k].denied => \A j \in legacyExecuted : j < k

\* The last call of the batch of invocation l has been executed and recorded,
\* and no stop was requested during the batch.
BatchExecuted(l) ==
    /\ pc[l] = "sleep200"
    /\ idx[l] = Len(functionCalls[l])
    /\ Len(functionResponses[l]) = Len(functionCalls[l])
    /\ ~shouldStop
    /\ ~stopSeen[l]

\* One user turn more, with one response per call of l in the order of the
\* calls, each with its screenshot.
OneTurnAppended(l) ==
    /\ Len(contents') = Len(contents) + 1
    /\ \A i \in 1..Len(contents) : contents'[i] = contents[i]
    /\ LET turn == contents'[Len(contents')]
       IN /\ turn.role = "user"
          /\ Len(turn.resps) = Len(functionCalls[l])
          /\ \A k \in 1..Len(turn.resps) :
                turn.resps[k].name = functionCalls[l][k].name /\ turn.resps[k].image

\* C29: when the 200 ms delay after the last call of a batch ends, and every
\* call of the batch was executed (no stop, no denial), exactly one user turn
\* is appended, with one response per call in order, each with its screenshot,
\* and the loop goes on to its next model call (the 300 ms delay before it).
C29_BatchAppendsOneTurn ==
    [][\A l \in Loops :
          BatchExecuted(l) /\ Sleep200Return(l) => OneTurnAppended(l) /\ pc'[l] = "sleep300"]_vars

\* The same, for a batch during which the conversation was not reset.
C29_Unreset ==
    [][\A l \in Loops :
          BatchExecuted(l) /\ agent # NoAgent /\ Sleep200Return(l)
              => OneTurnAppended(l) /\ pc'[l] = "sleep300"]_vars

\* The steps of one executed action, in their order.
StepOrder(l) ==
    /\ pc[l] = "exec" => pc'[l] = "settle"
    /\ pc[l] = "settle" => pc'[l] = "shot"
    /\ pc[l] = "shot" => pc'[l] \in {"geturl", "save_step", "done"}
    /\ pc[l] = "geturl" => pc'[l] = "save_step"
    /\ pc[l] = "save_step" => pc'[l] = "sleep200"
    /\ pc'[l] = "exec" => pc[l] \in {"model", "safety", "sleep200"}
    /\ pc'[l] = "shot" => pc[l] = "settle"
    /\ pc'[l] = "save_step" =>
          /\ pc[l] \in {"shot", "geturl"}
          /\ functionResponses'[l] # <<>>
          /\ functionResponses'[l][Len(functionResponses'[l])].image
    /\ Len(functionResponses'[l]) = Len(functionResponses[l]) + 1 <=> pc'[l] = "save_step"

\* C30: for each executed action the steps follow in the order execute,
\* page-settle wait, screenshot capture, observation record, 200 ms delay; the
\* one screenshot of an action is captured after the action and its settle
\* wait, and the next action of the batch starts only after the delay.
C30_StepsInOrder ==
    [][\A l \in Loops : pc'[l] # pc[l] => StepOrder(l)]_vars

C30_Witness ==
    \E l \in Loops :
        /\ pc[l] = "sleep200"
        /\ idx[l] = 2
        /\ Len(functionResponses[l]) = 2

\* The text contains one of the trigger phrases, in any letter case.
HasTriggerPhrase(text) ==
    \/ \E i \in 1..Len(text) :
          text[i] \in {"please confirm", "should I", "SHOULD I", "would you like", "which one",
                       "do you want", "let me know"}
    \/ \E i \in 1..(Len(text) - 1) :
          text[i] \in {"can you ", "Can You "} /\ text[i + 1] \in {"tell", "provide", "specify"}

\* The lines of a text end where a "\n" piece stands and at the end of the text:
\* some line of the text has '?' as its last character.
SomeLineEndsWithQuestionMark(text) ==
    LET lineEnds == {Len(text)} \cup {i - 1 : i \in {j \in 1..Len(text) : text[j] = "\n"}}
    IN \E e \in lineEnds : e >= 1 /\ text[e] = "?"

\* C31, as stated: the heuristic is true exactly when the text has a trailing
\* '?' or contains a trigger phrase.
C31_QuestionIffTrailingMarkOrPhrase ==
    waiting # "unset" =>
        (waiting = "true" <=> ((questionText # <<>> /\ questionText[Len(questionText)] = "?")
                      \/ HasTriggerPhrase(questionText)))

\* C31, amended: the heuristic is true exactly when some line of the text ends
\* with '?' or the text contains a trigger phrase; the empty text yields false.
C31_QuestionIffLineEndMarkOrPhrase ==
    waiting # "unset" =>
        (waiting = "true" <=> (SomeLineEndsWithQuestionMark(questionText)
                      \/ HasTriggerPhrase(questionText)))

C31_Witness ==
    /\ waiting = "true"
    /\ questionText = <<"?", "\n", "Done.">>

\* C32: waitForPageSettle always returns; while a navigation is in flight it
\* resumes on the tab's 'complete' event or when the 10 seconds are over,
\* whichever comes first, also when the event never arrives or fired before
\* the listener was registered.
C32_SettleAlwaysReturns ==
    /\ <>(settlePc = "returned")
    /\ [](settlePc = "loading" => elapsed <= TimeoutSeconds)
    /\ [][settlePc = "loading" /\ settlePc' # "loading" =>
              /\ settlePc' = "sleep500b"
              /\ (tabStatus = "loading" /\ tabStatus' = "complete") \/ elapsed = TimeoutSeconds]_vars

C32_Witness ==
    /\ settlePc = "returned"
    /\ queried = "loading"
    /\ tabStatus = "loading"
    /\ events = 0
    /\ elapsed = TimeoutSeconds

\* C33: an invocation whose pending confirmation was dropped (by stop, reset
\* or a later request) stays suspended at the confirmation whatever happens
\* afterwards: the action it asked about is never executed.
C33_AbandonedActionNeverRuns ==
    [][\A l \in Loops :
          pc[l] = "safety" /\ ~DecisionCanBeSupplied(l) => pc'[l] = "safety"]_vars

C33_Witness ==
    /\ pc[1] = "safety"
    /\ pendingSafetyConfirmation = NoPending
    /\ pc[2] = "exec"
    /\ allowed[2] = "yes"

\* C35: when an earlier invocation ends, a later invocation that is running
\* is not disturbed: isRunning keeps its value and the later invocation's
\* pending confirmation stays stored.
C35_EarlierExitLeavesLaterLoop ==
    [][\A l, m \in Loops :
          (l < m /\ Running(l) /\ pc'[l] = "done" /\ Running(m) /\ pc'[m] = pc[m])
              => /\ isRunning' = isRunning
                 /\ DecisionCanBeSupplied(m) => DecisionCanBeSupplied(m)']_vars

\* Every model turn of c with function calls is followed at once by a user
\* turn with one function response per call.
Answered(c) ==
    \A i \in 1..Len(c) :
        (c[i].role = "model" /\ c[i].calls # <<>>)
            => /\ i < Len(c)
               /\ c[i + 1].role = "user"
               /\ Len(c[i + 1].resps) = Len(c[i].calls)

\* C36: the history sent with every model call leaves no function call
\* unanswered.
C36_NoCallUnanswered ==
    \A l \in Loops : pc[l] = "model" => Answered(sent[l])

\* C37: the step in which an invocation finds the stop flag set after an
\* action of its batch appends nothing: the conversation is as it was and the
\* invocation ends.
C37_StopAppendsNothing ==
    [][\A l \in Loops :
          pc[l] = "sleep200" /\ shouldStop /\ Sleep200Return(l)
              => contents' = contents /\ pc'[l] = "done"]_vars

C37_Witness ==
    \E l \in Loops :
        /\ pc[l] = "sleep200"
        /\ idx[l] = 2
        /\ Len(functionResponses[l]) = 2
        /\ shouldStop
        /\ stopSeen[l]
        /\ contents # <<>>
        /\ contents[Len(contents)].calls = functionCalls[l]

\* c2 is c with turns appended at its end; a turn of c differs in c2 at most
\* by image payloads that were stripped.
GrowsByAppending(c, c2) ==
    /\ Len(c2) >= Len(c)
    /\ \A i \in 1..Len(c) :
          /\ Unimaged(c2[i]) = Unimaged(c[i])
          /\ \A k \in 1..Len(c[i].resps) : c2[i].resps[k].image => c[i].resps[k].image

\* C38: in every step that neither resets the conversation nor starts a task
\* (the same BrowserAgent before and after), the conversation only grows by
\* appending.
C38_OnlyAppends ==
    [][agent # NoAgent /\ agent' = agent => GrowsByAppending(contents, contents')]_vars

C38_Witness ==
    /\ agent # NoAgent
    /\ Len(contents) = 4
    /\ contents[2].role = "model"
    /\ contents[3].resps # <<>>
    /\ contents[4].role = "model"

\* C39, as stated: every valid normalized coordinate denormalizes to a pixel
\* inside the viewport, whatever the viewport's positive width and height.
C39_ValidStaysInViewport ==
    (coordPc = "denormalized" /\ isValidNormalizedCoords(normalized, normalized))
        => isWithinViewport(roundTrip, roundTrip, extent, extent)

\* C39, amended: a valid normalized coordinate denormalizes to a pixel from 0
\* to the extent, the extent included; the pixel is inside the viewport when
\* the extent is greater than 500.
C39_ValidStaysInViewportOver500 ==
    (coordPc = "denormalized" /\ isValidNormalizedCoords(normalized, normalized))
        => /\ roundTrip >= 0
           /\ roundTrip <= extent
           /\ extent > NORMALIZED_MAX \div 2
                 => isWithinViewport(roundTrip, roundTrip, extent, extent)

C39_Witness ==
    /\ coordPc = "denormalized"
    /\ normalized = NORMALIZED_MAX - 1
    /\ extent = 501
    /\ roundTrip = 500

\* C34: an approval resolves only the confirmation request it answers: when
\* the user allows what the banner shows and a confirmation is pending, the
\* pending request is the one on the banner.
C34_ApprovalAnswersItsRequest ==
    [][(HandleSafetyResponse(TRUE) /\ pendingSafetyConfirmation # NoPending)
          => banner = pendingSafetyConfirmation]_vars

====
